---- MODULE Spec2Model ----
(***************************************************************************)
(* react-tree-stream: the TreeStream component (orchestrator), its         *)
(* reducer (streamReducer), the sequential scheduler and the plan          *)
(* signature, as one state machine of a mounted instance.                  *)
(*                                                                         *)
(* One step of the machine is one event of the host (a re-render with new  *)
(* props, a timer firing, a nested child signalling completion) followed   *)
(* by React's render/commit/effect rounds until no state update is left.   *)
(***************************************************************************)
EXTENDS Integers, Sequences, FiniteSets, TLC

(***************************************************************************)
(* Bounds of the exploration                                               *)
(***************************************************************************)
MaxResets == 2      \* resets (after the mount) explored per behaviour
MaxTimers == 2      \* pending timers a re-render may pile up to
MaxRuns == 3        \* run tokens a client of the scheduler takes
MaxSigLen == 2      \* units of a plan handed to planSignature
MaxWidth == 2       \* items of an array of children handed to buildPlan

(***************************************************************************)
(* Defaults of the props                                                   *)
(***************************************************************************)
DefaultInterval == 50

\* the delays a host configures: immediate ticks or the default interval
Intervals == {0, DefaultInterval}

\* tokens per tick: one, or several (clamped at the end of the unit)
Speeds == {1, 2}

(***************************************************************************)
(* Small helpers                                                           *)
(***************************************************************************)
Max(a, b) == IF a >= b THEN a ELSE b

Min(a, b) == IF a <= b THEN a ELSE b

RemoveAt(s, k) == [j \in 1..(Len(s) - 1) |-> IF j < k THEN s[j] ELSE s[j + 1]]

(***************************************************************************)
(* Text: a string is a sequence of one-character strings                   *)
(***************************************************************************)
IsWs(c) == c \in {" ", "\t", "\n"}

\* String.prototype.split('') : one token per character
SplitChars(s) == [j \in 1..Len(s) |-> <<s[j]>>]

\* String.prototype.split(/(\s+)/) : words and the whitespace runs between
\* them, alternating, starting and ending with a (possibly empty) word
RECURSIVE SplitWsFrom(_, _, _, _, _)
SplitWsFrom(s, j, acc, cur, inWs) ==
    IF j > Len(s)
    THEN IF inWs THEN acc \o <<cur, <<>>>> ELSE Append(acc, cur)
    ELSE IF IsWs(s[j]) = inWs
         THEN SplitWsFrom(s, j + 1, acc, Append(cur, s[j]), inWs)
         ELSE SplitWsFrom(s, j + 1, Append(acc, cur), <<s[j]>>, ~inWs)

\* split(/\s+/), without the capture group: the whitespace runs are dropped
SplitWs_nocapture(s) ==
    LET all == SplitWsFrom(s, 1, <<>>, <<>>, FALSE)
    IN  [j \in 1..((Len(all) + 1) \div 2) |-> all[2 * j - 1]]

SplitWs(s) == SplitWsFrom(s, 1, <<>>, <<>>, FALSE)

\* tokens.slice(0, n).join('')
RECURSIVE JoinPrefix(_, _)
JoinPrefix(tokens, n) ==
    IF n <= 0 THEN <<>> ELSE JoinPrefix(tokens, n - 1) \o tokens[n]

\* the tokens runUnit hands to BEGIN_TEXT
Tokenize(streamBy, content) ==
    IF streamBy = "character" THEN SplitChars(content) ELSE SplitWs(content)

(***************************************************************************)
(* Execution units and plans                                               *)
(***************************************************************************)
NoNode == "-"

TextUnit(content) == [type |-> "text_stream", content |-> content, node |-> NoNode]

InstantUnit(node) == [type |-> "instant_render", content |-> <<>>, node |-> node]

NestedUnit(node) == [type |-> "nested_stream", content |-> <<>>, node |-> node]

Hi == <<"h", "i">>

AB == <<"a", " ", "b">>

\* the children a host passes, already flattened by buildPlan
PEmpty == <<>>

PText == <<TextUnit(Hi)>>

PTextInst == <<TextUnit(Hi), InstantUnit("x")>>

PTextInstY == <<TextUnit(Hi), InstantUnit("y")>>

PNest == <<NestedUnit("n1")>>

PNestText == <<NestedUnit("n1"), TextUnit(Hi)>>

PLong == <<InstantUnit("x"), NestedUnit("n2"), TextUnit(Hi)>>

PTwoText == <<TextUnit(AB), TextUnit(Hi)>>

Plans == {PEmpty, PText, PTwoText, PTextInst, PTextInstY, PNest, PNestText, PLong}

UnitSlots == 0..2

\* signature of the children of a nested TreeStream element: n1 and n2 are
\* distinct elements with the same children
ChildSignature(node) == IF node \in {"n1", "n2"} THEN "c1" ELSE "c2"

\* JSON.stringify of a string and of an array, as a sequence of characters
JsonEscape_raw(c) == <<c>>

JsonEscape(c) ==
    CASE c = "\"" -> <<"\\", "\"">>
      [] c = "\\" -> <<"\\", "\\">>
      [] c = "\n" -> <<"\\", "n">>
      [] c = "\t" -> <<"\\", "t">>
      [] OTHER -> <<c>>

RECURSIVE JsonChars(_, _)
JsonChars(s, n) ==
    IF n = 0 THEN <<>> ELSE JsonChars(s, n - 1) \o JsonEscape(s[n])

JsonString(s) == <<"\"">> \o JsonChars(s, Len(s)) \o <<"\"">>

RECURSIVE JoinComma(_, _)
JoinComma(items, n) ==
    IF n = 0 THEN <<>>
    ELSE IF n = 1 THEN items[1]
    ELSE JoinComma(items, n - 1) \o <<",">> \o items[n]

JsonArray(items) == <<"[">> \o JoinComma(items, Len(items)) \o <<"]">>

\* planSignature: JSON.stringify of ['T', content] | ['N'] | ['I'] per unit
SigEntry(u) ==
    CASE u.type = "text_stream" -> JsonArray(<<JsonString(<<"T">>), JsonString(u.content)>>)
      [] u.type = "nested_stream" -> JsonArray(<<JsonString(<<"N">>)>>)
      [] u.type = "instant_render" -> JsonArray(<<JsonString(<<"I">>)>>)

planSignature_identity(plan) == plan

planSignature(plan) == JsonArray([j \in 1..Len(plan) |-> SigEntry(plan[j])])

(***************************************************************************)
(* rendered: a JavaScript Map, i.e. key/value pairs in insertion order     *)
(***************************************************************************)
TextContent(s) == [kind |-> "text", text |-> s, node |-> NoNode]

InstantNode(node) == [kind |-> "node", text |-> <<>>, node |-> node]

\* the autoStart the host gave the nested element: n2 is configured off
ConfiguredAutoStart(node) == node # "n2"

NestedNode_asConfigured(node) ==
    [kind |-> "nested", text |-> <<>>, node |-> node,
     autoStart |-> ConfiguredAutoStart(node)]

\* React.cloneElement(child, {...child.props, autoStart: true, onComplete: composed})
NestedNode(node) ==
    [kind |-> "nested", text |-> <<>>, node |-> node, autoStart |-> TRUE]

MapKeys(r) == {r[j].key : j \in 1..Len(r)}

MapHas(r, k) == k \in MapKeys(r)

MapGet(r, k) == r[CHOOSE j \in 1..Len(r) : r[j].key = k].val

\* a set that starts from an empty map instead of a copy of the map
MapSet_fresh(r, k, v) == <<[key |-> k, val |-> v]>>

MapSet(r, k, v) ==
    IF MapHas(r, k)
    THEN [j \in 1..Len(r) |-> IF r[j].key = k THEN [key |-> k, val |-> v] ELSE r[j]]
    ELSE Append(r, [key |-> k, val |-> v])

(***************************************************************************)
(* reducer                                                                 *)
(***************************************************************************)
NoUnit == -1

initialStreamState ==
    [unitIndex |-> 0,
     waitingNested |-> FALSE,
     rendered |-> <<>>,
     text |-> [tokens |-> <<>>, index |-> 0, activeUnit |-> NoUnit, streaming |-> FALSE],
     complete |-> FALSE]

streamReducer(state, action) ==
    CASE action.type = "RESET" -> initialStreamState
      [] action.type = "START" -> state
      [] action.type = "BEGIN_TEXT" ->
            [state EXCEPT
                !.text = [tokens |-> action.tokens, index |-> 0,
                          activeUnit |-> action.unitIndex, streaming |-> TRUE],
                !.rendered = IF MapHas(@, action.unitIndex) THEN @
                             ELSE MapSet(@, action.unitIndex, TextContent(<<>>))]
      [] action.type = "TEXT_TICK" ->
            [state EXCEPT
                !.text.index = action.nextIndex,
                !.rendered = IF state.text.activeUnit # NoUnit
                             THEN MapSet(@, state.text.activeUnit, TextContent(action.content))
                             ELSE @]
      [] action.type = "END_TEXT" -> [state EXCEPT !.text.streaming = FALSE]
      [] action.type = "ADVANCE" -> [state EXCEPT !.unitIndex = @ + 1]
      [] action.type = "INSTANT_RENDER" ->
            [state EXCEPT !.rendered = MapSet(@, action.unitIndex, action.node)]
      [] action.type = "NESTED_START" ->
            [state EXCEPT !.rendered = MapSet(@, action.unitIndex, action.node),
                          !.waitingNested = TRUE]
      [] action.type = "NESTED_DONE" -> [state EXCEPT !.waitingNested = FALSE]
      [] action.type = "COMPLETE" -> [state EXCEPT !.complete = TRUE]

(***************************************************************************)
(* The instance while one event is processed.  m is the record             *)
(*   mounted the instance is mounted                                       *)
(*   st      the reducer state with every dispatch so far applied          *)
(*   runId   runIdRef.current                                              *)
(*   timers  the setTimeout callbacks that are pending, oldest first       *)
(*   child   per unit slot, the nested TreeStream instance mounted there   *)
(*   fresh   a BEGIN_TEXT since the last render made a new tokens array    *)
(*   view    the memoised element: its data attributes and child keys      *)
(* and the history the properties are stated on                            *)
(*   calls   invocations of the onComplete prop since the last reset       *)
(*   trace   unit starts and ends dispatched since the last reset          *)
(*   resets  runs of the reset effect so far                               *)
(*   dropped the event being processed is a reset that cleared callbacks   *)
(*   staleRan a callback body ran that was scheduled before the last reset *)
(*   steady  speed and interval did not change while a text unit of this   *)
(*           run was streaming                                             *)
(*   ticks   tick callbacks that ran since the last BEGIN_TEXT, counted    *)
(*           as long as steady holds                                       *)
(*   hooked  what the hook a nested element carried did when the event     *)
(*           being processed called it                                     *)
(*   thrown  the event being processed ended with an error raised to the   *)
(*           caller of the composed hook                                   *)
(***************************************************************************)
\* a dispatch that merges the result of RESET into the rendered map it had
Dispatch_merge(m, action) ==
    IF ~m.mounted THEN m
    ELSE IF action.type = "RESET"
         THEN [m EXCEPT !.st = [streamReducer(@, action) EXCEPT !.rendered = m.st.rendered]]
         ELSE [m EXCEPT !.st = streamReducer(@, action)]

\* React drops the update of an instance that is no longer mounted
Dispatch(m, action) ==
    IF m.mounted THEN [m EXCEPT !.st = streamReducer(@, action)] ELSE m

Log(m, ev, unit) == [m EXCEPT !.trace = Append(@, [ev |-> ev, unit |-> unit])]

\* useSequentialScheduler
cancelAll_noop(m) == m

cancelAll(m) == [m EXCEPT !.timers = <<>>]

nextRunToken_keep(m) == m

nextRunToken_skip(m) == cancelAll([m EXCEPT !.runId = @ + 2])

nextRunToken(m) == cancelAll([m EXCEPT !.runId = @ + 1])

schedule(m, fn, delay) ==
    [m EXCEPT !.timers = Append(@, [fn EXCEPT !.token = m.runId,
                                              !.delay = Max(0, delay),
                                              !.epoch = m.resets])]

\* the two kinds of callback the component schedules
RunUnitFn(next) ==
    [kind |-> "runUnit", next |-> next, index |-> 0, tokens |-> <<>>, speed |-> 0,
     token |-> 0, delay |-> 0, epoch |-> 0]

TickFn(index, tokens, speed) ==
    [kind |-> "tick", next |-> 0, index |-> index, tokens |-> tokens, speed |-> speed,
     token |-> 0, delay |-> 0, epoch |-> 0]

(***************************************************************************)
(* runUnit.  env is what the callback sees: env.plan is                     *)
(* latestPlanRef.current, env.planLen and env.streamBy are plan.length and *)
(* streamBy of the render that created the callback (useCallback(.., []),  *)
(* the first render).                                                      *)
(***************************************************************************)
CompleteRun_silent(m) == Dispatch(m, [type |-> "COMPLETE"])

\* dispatch({type: 'COMPLETE'}); onCompleteRef.current?.()
CompleteRun(m) == [Dispatch(m, [type |-> "COMPLETE"]) EXCEPT !.calls = @ + 1]

RunText_eager(m, unitIndex, unit, env) ==
    LET m1 == Dispatch(m, [type |-> "BEGIN_TEXT", unitIndex |-> unitIndex,
                           tokens |-> Tokenize(env.streamBy, unit.content)])
    IN  schedule(Log([m1 EXCEPT !.fresh = TRUE, !.ticks = 0], "start", unitIndex),
                 RunUnitFn(unitIndex + 1), 0)

RunText(m, unitIndex, unit, env) ==
    LET m1 == Dispatch(m, [type |-> "BEGIN_TEXT", unitIndex |-> unitIndex,
                           tokens |-> Tokenize(env.streamBy, unit.content)])
    IN  Log([m1 EXCEPT !.fresh = TRUE, !.ticks = 0], "start", unitIndex)

\* an instant unit that leaves the cursor where it is
RunInstant_noAdvance(m, unitIndex, unit) ==
    LET m1 == Log(Dispatch(m, [type |-> "INSTANT_RENDER", unitIndex |-> unitIndex,
                               node |-> InstantNode(unit.node)]),
                  "start", unitIndex)
    IN  schedule(Log(m1, "end", unitIndex), RunUnitFn(unitIndex + 1), 0)

RunInstant(m, unitIndex, unit) ==
    LET m1 == Log(Dispatch(m, [type |-> "INSTANT_RENDER", unitIndex |-> unitIndex,
                               node |-> InstantNode(unit.node)]),
                  "start", unitIndex)
        m2 == Dispatch(Log(m1, "end", unitIndex), [type |-> "ADVANCE"])
    IN  schedule(m2, RunUnitFn(unitIndex + 1), 0)

RunNested_nowait(m, unitIndex, unit) ==
    LET m1 == Log(Dispatch(m, [type |-> "NESTED_START", unitIndex |-> unitIndex,
                               node |-> NestedNode(unit.node)]),
                  "start", unitIndex)
    IN  schedule(Dispatch(m1, [type |-> "ADVANCE"]), RunUnitFn(unitIndex + 1), 0)

RunNested(m, unitIndex, unit) ==
    Log(Dispatch(m, [type |-> "NESTED_START", unitIndex |-> unitIndex,
                     node |-> NestedNode(unit.node)]),
        "start", unitIndex)

runUnit(m, unitIndex, env) ==
    IF unitIndex >= env.planLen THEN CompleteRun(m)
    ELSE IF unitIndex >= Len(env.plan) THEN m
    ELSE LET unit == env.plan[unitIndex + 1]
         IN  CASE unit.type = "text_stream" -> RunText(m, unitIndex, unit, env)
               [] unit.type = "instant_render" -> RunInstant(m, unitIndex, unit)
               [] unit.type = "nested_stream" -> RunNested(m, unitIndex, unit)

\* childExisting: the onComplete the nested element carried in the plan
HasHook(node) == node = "n2"

\* what calling it does: nothing to call, it returns, or it raises
HookOutcomes(node) == IF HasHook(node) THEN {"returns", "raises"} ELSE {"none"}

\* childExisting?.()
CallExisting(m, unitIndex, outcome) ==
    IF outcome = "none" THEN m
    ELSE [Log(m, "hook", unitIndex) EXCEPT !.hooked = outcome]

composed_abort(m, unitIndex, outcome) ==
    LET m0 == CallExisting(m, unitIndex, outcome)
        m1 == Log(Dispatch(m0, [type |-> "NESTED_DONE"]), "end", unitIndex)
        m2 == schedule(Dispatch(m1, [type |-> "ADVANCE"]), RunUnitFn(unitIndex + 1), 0)
    IN  IF outcome = "raises" THEN [m0 EXCEPT !.thrown = TRUE] ELSE m2

\* a hook that advances without NESTED_DONE
composed_keepWaiting(m, unitIndex, outcome) ==
    LET m0 == CallExisting(m, unitIndex, outcome)
        m1 == Log(m0, "end", unitIndex)
        m2 == schedule(Dispatch(m1, [type |-> "ADVANCE"]), RunUnitFn(unitIndex + 1), 0)
    IN  [m2 EXCEPT !.thrown = (outcome = "raises")]

\* the completion hook runUnit composes for the nested unit at unitIndex:
\* try { childExisting?.() } finally { NESTED_DONE; ADVANCE; schedule }
composed(m, unitIndex, outcome) ==
    LET m0 == CallExisting(m, unitIndex, outcome)
        m1 == Log(Dispatch(m0, [type |-> "NESTED_DONE"]), "end", unitIndex)
        m2 == schedule(Dispatch(m1, [type |-> "ADVANCE"]), RunUnitFn(unitIndex + 1), 0)
    IN  [m2 EXCEPT !.thrown = (outcome = "raises")]

TickBody_noclamp(m, fn) ==
    LET step == Max(1, fn.speed)
        nextIndex == fn.index + step
    IN  Dispatch([m EXCEPT !.ticks = IF m.steady THEN @ + 1 ELSE @],
                 [type |-> "TEXT_TICK", nextIndex |-> nextIndex,
                  content |-> JoinPrefix(fn.tokens, Min(nextIndex, Len(fn.tokens)))])

\* the callback of the text tick effect
TickBody(m, fn) ==
    LET step == Max(1, fn.speed)
        nextIndex == Min(fn.index + step, Len(fn.tokens))
    IN  Dispatch([m EXCEPT !.ticks = IF m.steady THEN @ + 1 ELSE @],
                 [type |-> "TEXT_TICK", nextIndex |-> nextIndex,
                  content |-> JoinPrefix(fn.tokens, nextIndex)])

(***************************************************************************)
(* Effects.  snap is the state of the render whose effects run.            *)
(***************************************************************************)
TextTickEffect_sameCycle(m, snap, props) ==
    IF ~snap.text.streaming \/ Len(snap.text.tokens) = 0 THEN m
    ELSE IF snap.text.index >= Len(snap.text.tokens)
         THEN LET m1 == Log(Dispatch(m, [type |-> "END_TEXT"]), "end", snap.text.activeUnit)
              IN  CompleteRun(Dispatch(m1, [type |-> "ADVANCE"]))
         ELSE schedule(m, TickFn(snap.text.index, snap.text.tokens, props.speed),
                       Max(0, props.interval))

\* an end of text that leaves the cursor where it is
TextTickEffect_noAdvance(m, snap, props) ==
    IF ~snap.text.streaming \/ Len(snap.text.tokens) = 0 THEN m
    ELSE IF snap.text.index >= Len(snap.text.tokens)
         THEN LET m1 == Log(Dispatch(m, [type |-> "END_TEXT"]), "end", snap.text.activeUnit)
              IN  schedule(m1, RunUnitFn(snap.unitIndex + 1), 0)
         ELSE schedule(m, TickFn(snap.text.index, snap.text.tokens, props.speed),
                       Max(0, props.interval))

TextTickEffect(m, snap, props) ==
    IF ~snap.text.streaming \/ Len(snap.text.tokens) = 0 THEN m
    ELSE IF snap.text.index >= Len(snap.text.tokens)
         THEN LET m1 == Log(Dispatch(m, [type |-> "END_TEXT"]), "end", snap.text.activeUnit)
              IN  schedule(Dispatch(m1, [type |-> "ADVANCE"]),
                           RunUnitFn(snap.unitIndex + 1), 0)
         ELSE schedule(m, TickFn(snap.text.index, snap.text.tokens, props.speed),
                       Max(0, props.interval))

NoteDropped(m) == [m EXCEPT !.dropped = @ \/ (m.timers # <<>>)]

\* a reset that takes a new token and keeps the reducer state
ResetRun_keepState(m) ==
    LET m1 == nextRunToken(NoteDropped(m))
    IN  [m1 EXCEPT !.resets = @ + 1, !.calls = 0, !.trace = <<>>,
                   !.ticks = 0, !.steady = TRUE]

ResetRun(m) ==
    LET m1 == nextRunToken(NoteDropped(m))
    IN  Dispatch([m1 EXCEPT !.resets = @ + 1, !.calls = 0, !.trace = <<>>,
                            !.ticks = 0, !.steady = TRUE],
                 [type |-> "RESET"])

ResetEffect_noEmptyCheck(m, props, env) ==
    IF props.autoStart THEN runUnit(ResetRun(m), 0, env) ELSE ResetRun(m)

ResetEffect(m, props, env) ==
    LET m1 == ResetRun(m)
    IN  IF Len(env.plan) = 0 THEN CompleteRun(m1)
        ELSE IF props.autoStart THEN runUnit(m1, 0, env)
        ELSE m1

(***************************************************************************)
(* Commit of a render: the nested TreeStream elements held by rendered are *)
(* mounted under the key of their unit, the others are unmounted.  A       *)
(* mounted child runs its own stream when the autoStart of its element is  *)
(* true and is idle otherwise; it signals once per run of its own and      *)
(* starts a new run only when its own signature changes.                   *)
(***************************************************************************)
NoChild == [status |-> "unmounted", sig |-> "-"]

SyncChild(old, rendered, i) ==
    IF MapHas(rendered, i) /\ MapGet(rendered, i).kind = "nested"
    THEN LET el == MapGet(rendered, i)
             sig == ChildSignature(el.node)
         IN  IF old.status = "unmounted" \/ old.sig # sig \/ old.status = "idle"
             THEN [status |-> IF el.autoStart THEN "running" ELSE "idle", sig |-> sig]
             ELSE old
    ELSE NoChild

\* the element a render returns: the data attributes of the host element
\* and one keyed fragment per entry of rendered, in insertion order
element_textOnly(snap) ==
    [streaming |-> snap.text.streaming,
     complete |-> snap.complete,
     keys |-> [j \in 1..Len(snap.rendered) |-> snap.rendered[j].key]]

element(snap) ==
    [streaming |-> snap.text.streaming \/ snap.waitingNested,
     complete |-> snap.complete,
     keys |-> [j \in 1..Len(snap.rendered) |-> snap.rendered[j].key]]

Commit(m, snap) ==
    [m EXCEPT !.child = [i \in UnitSlots |-> SyncChild(m.child[i], snap.rendered, i)],
              !.view = element(snap),
              !.fresh = FALSE]

(***************************************************************************)
(* Render/effect rounds after an event, until no state update is pending.  *)
(* prevSnap/prevProps are the state and props of the previous render; the  *)
(* cleanups of the effects whose dependencies changed run first, then the  *)
(* effects in the order the component declares them.                       *)
(***************************************************************************)
TickDepsChanged(m, snap, prevSnap, props, prevProps) ==
    \/ m.fresh
    \/ snap.text.streaming # prevSnap.text.streaming
    \/ snap.text.tokens # prevSnap.text.tokens
    \/ snap.text.index # prevSnap.text.index
    \/ props.speed # prevProps.speed
    \/ props.interval # prevProps.interval
    \/ snap.unitIndex # prevSnap.unitIndex

\* signature is memoised on plan, and plan on children
ResetDepsChanged(props, prevProps) ==
    \/ /\ props.children # prevProps.children
       /\ planSignature(props.children) # planSignature(prevProps.children)
    \/ props.autoStart # prevProps.autoStart

RECURSIVE Settle(_, _, _, _, _)
Settle(m, prevSnap, prevProps, props, env) ==
    LET snap == m.st
        tick == TickDepsChanged(m, snap, prevSnap, props, prevProps)
        reset == ResetDepsChanged(props, prevProps)
        m0 == Commit(m, snap)
        m1 == IF reset /\ Len(prevProps.children) # 0 THEN cancelAll(NoteDropped(m0)) ELSE m0
        m2 == IF tick THEN TextTickEffect(m1, snap, props) ELSE m1
        m3 == IF reset THEN ResetEffect(m2, props, env) ELSE m2
    IN  IF m3.st = snap /\ ~m3.fresh THEN m3
        ELSE Settle(m3, snap, props, props, env)

(***************************************************************************)
(* State                                                                   *)
(***************************************************************************)
VARIABLES props, closure, mounted, state, runId, timers, child, view,
          calls, trace, resets, dropped, staleRan, ticks, steady, hooked, thrown,
          arg, ret

vars == <<props, closure, mounted, state, runId, timers, child, view,
          calls, trace, resets, dropped, staleRan, ticks, steady, hooked, thrown,
          arg, ret>>

PropsSet ==
    [children : Plans, speed : Speeds, interval : Intervals,
     streamBy : {"word", "character"}, autoStart : BOOLEAN]

\* the variables arg and ret hold the argument and the result of a function
\* of the package that is applied on its own; an instance does not use them
NoArg == <<>>

\* what runUnit sees: the ref to the latest plan and the first render's values
EnvOf(p, c) == [plan |-> p.children, planLen |-> c.planLen, streamBy |-> c.streamBy]

Cur ==
    [mounted |-> mounted, st |-> state, runId |-> runId, timers |-> timers, child |-> child, fresh |-> FALSE,
     view |-> view,
     calls |-> calls, trace |-> trace, resets |-> resets, dropped |-> FALSE,
     staleRan |-> staleRan, ticks |-> ticks, steady |-> steady,
     hooked |-> "none", thrown |-> FALSE]

Install(m) ==
    /\ state' = m.st
    /\ runId' = m.runId
    /\ timers' = m.timers
    /\ child' = m.child
    /\ calls' = m.calls
    /\ trace' = m.trace
    /\ resets' = m.resets
    /\ dropped' = m.dropped
    /\ staleRan' = m.staleRan
    /\ view' = m.view
    /\ ticks' = m.ticks
    /\ steady' = m.steady
    /\ hooked' = m.hooked
    /\ thrown' = m.thrown

\* the instance after the mount: first render, then every effect once
Mounted(p) ==
    LET c == [planLen |-> Len(p.children), streamBy |-> p.streamBy]
        m0 == [mounted |-> TRUE, st |-> initialStreamState, runId |-> 0, timers |-> <<>>,
               child |-> [i \in UnitSlots |-> NoChild], fresh |-> FALSE,
               view |-> element(initialStreamState),
               calls |-> 0, trace |-> <<>>, resets |-> 0, dropped |-> FALSE,
               staleRan |-> FALSE, ticks |-> 0, steady |-> TRUE,
               hooked |-> "none", thrown |-> FALSE]
        m1 == TextTickEffect(m0, initialStreamState, p)
        m2 == ResetEffect(m1, p, EnvOf(p, c))
    IN  Settle(m2, initialStreamState, p, p, EnvOf(p, c))

Init ==
    \E p \in PropsSet :
        \E m \in {Mounted(p)} :
            /\ props = p
            /\ closure = [planLen |-> Len(p.children), streamBy |-> p.streamBy]
            /\ state = m.st
            /\ runId = m.runId
            /\ timers = m.timers
            /\ child = m.child
            /\ calls = m.calls
            /\ trace = m.trace
            /\ resets = m.resets
            /\ dropped = m.dropped
            /\ staleRan = m.staleRan
            /\ view = m.view
            /\ ticks = m.ticks
            /\ steady = m.steady
            /\ hooked = m.hooked
            /\ thrown = m.thrown
            /\ mounted = TRUE
            /\ arg = NoArg
            /\ ret = NoArg

(***************************************************************************)
(* Events                                                                  *)
(***************************************************************************)
\* speed or interval change while a text unit is streaming
NoteConfig(m, p, np) ==
    IF m.st.text.streaming /\ (np.speed # p.speed \/ np.interval # p.interval)
    THEN [m EXCEPT !.steady = FALSE, !.ticks = 0]
    ELSE m

\* the host renders the component with the props np
Rerender(np) ==
    /\ mounted
    /\ np # props
    /\ ResetDepsChanged(np, props) => resets <= MaxResets
    /\ \E m \in {Settle(NoteConfig(Cur, props, np), state, props, np, EnvOf(np, closure))} :
           /\ Len(m.timers) <= MaxTimers
           /\ Install(m)
    /\ props' = np
    /\ UNCHANGED <<closure, mounted, arg, ret>>

SetChildren(plan) == Rerender([props EXCEPT !.children = plan])

\* autoStart, possibly together with another speed in the same render
SetAutoStart(b, n) == Rerender([props EXCEPT !.autoStart = b, !.speed = n])

SetInterval(ms) == Rerender([props EXCEPT !.interval = ms])

SetStreamBy(mode) == Rerender([props EXCEPT !.streamBy = mode])

\* a timer may fire unless an older pending timer is due no later
MayFire(k) == \A j \in 1..(k - 1) : timers[j].delay > timers[k].delay

FireBody(m, fn, env) ==
    IF fn.kind = "tick" THEN TickBody(m, fn) ELSE runUnit(m, fn.next, env)

\* setTimeout(() => { if (runIdRef.current === token) fn(); }, delay)
FireTimer(k) ==
    /\ k \in 1..Len(timers)
    /\ MayFire(k)
    /\ LET fn == timers[k]
           m0 == [Cur EXCEPT !.timers = RemoveAt(@, k)]
           env == EnvOf(props, closure)
           m1 == IF fn.token # runId THEN m0
                 ELSE [FireBody(m0, fn, env) EXCEPT !.staleRan = @ \/ (fn.epoch # resets)]
       IN  \E m \in {IF mounted THEN Settle(m1, state, props, props, env) ELSE m1} :
               Install(m)
    /\ UNCHANGED <<props, closure, mounted, arg, ret>>

\* the nested child at slot i finishes its run: runUnit(planLen) of the child
\* dispatches COMPLETE and calls onCompleteRef.current, the composed hook
ChildComplete(i, outcome) ==
    /\ i \in UnitSlots
    /\ child[i].status = "running"
    /\ outcome \in HookOutcomes(MapGet(state.rendered, i).node)
    /\ LET m0 == [Cur EXCEPT !.child[i].status = "complete"]
       IN  \E m \in {Settle(composed(m0, i, outcome), state, props, props,
                              EnvOf(props, closure))} :
               Install(m)
    /\ UNCHANGED <<props, closure, mounted, arg, ret>>

\* the host removes the instance: the cleanup of the reset effect (there is
\* one unless the plan was empty) and the cleanup of the scheduler's unmount
\* effect run, and the nested instances are removed with it
Unmount ==
    /\ mounted
    /\ LET m0 == NoteDropped(Cur)
           m1 == IF Len(props.children) # 0 THEN cancelAll(m0) ELSE m0
           m2 == cancelAll(m1)
       IN  Install([m2 EXCEPT !.child = [i \in UnitSlots |-> NoChild]])
    /\ mounted' = FALSE
    /\ UNCHANGED <<props, closure, arg, ret>>

Next ==
    \/ \E plan \in Plans : SetChildren(plan)
    \/ \E b \in BOOLEAN, n \in Speeds : SetAutoStart(b, n)
    \/ \E ms \in Intervals : SetInterval(ms)
    \/ \E mode \in {"word", "character"} : SetStreamBy(mode)
    \/ \E k \in 1..MaxTimers : FireTimer(k)
    \/ \E i \in UnitSlots, outcome \in {"none", "returns", "raises"} :
           ChildComplete(i, outcome)
    \/ Unmount

Spec == Init /\ [][Next]_vars

(***************************************************************************)
(* useSequentialScheduler on its own: a client calls schedule, cancelAll   *)
(* and nextRunToken in any order and the timeouts fire.  arg is the call   *)
(* made last and ret what it returned; a fired timeout returns whether it  *)
(* ran its callback.                                                       *)
(***************************************************************************)
\* the variables of an instance that the scheduler does not touch
instanceVars ==
    <<props, closure, state, child, view, calls, trace, resets, dropped, staleRan,
      ticks, steady, hooked, thrown>>

DefaultProps ==
    [children |-> PEmpty, speed |-> 1, interval |-> DefaultInterval,
     streamBy |-> "word", autoStart |-> TRUE]

NoInstance ==
    /\ props = DefaultProps
    /\ closure = [planLen |-> 0, streamBy |-> "word"]
    /\ state = initialStreamState
    /\ child = [i \in UnitSlots |-> NoChild]
    /\ view = element(initialStreamState)
    /\ calls = 0
    /\ trace = <<>>
    /\ resets = 0
    /\ dropped = FALSE
    /\ staleRan = FALSE
    /\ ticks = 0
    /\ steady = TRUE
    /\ hooked = "none"
    /\ thrown = FALSE

\* a callback of the client; afterCancel: the call before was cancelAll
ProbeFn(afterCancel) ==
    [kind |-> "probe", afterCancel |-> afterCancel, token |-> 0, delay |-> 0, epoch |-> 0]

\* schedule(fn, delay = 0)
Delays == Intervals \cup {-1}

SchedInit ==
    /\ NoInstance
    /\ mounted = TRUE
    /\ runId = 0
    /\ timers = <<>>
    /\ arg = [op |-> "mount"]
    /\ ret = NoArg

SchedSchedule(delay) ==
    /\ mounted
    /\ Len(timers) < MaxTimers
    /\ LET m == schedule(Cur, ProbeFn(arg.op = "cancelAll"), delay)
       IN  /\ timers' = m.timers
           /\ runId' = m.runId
           /\ ret' = m.timers[Len(m.timers)]
    /\ arg' = [op |-> "schedule", delay |-> delay]
    /\ UNCHANGED <<instanceVars, mounted>>

SchedCancelAll ==
    /\ mounted
    /\ LET m == cancelAll(Cur)
       IN  /\ timers' = m.timers
           /\ runId' = m.runId
    /\ arg' = [op |-> "cancelAll"]
    /\ ret' = NoArg
    /\ UNCHANGED <<instanceVars, mounted>>

SchedNextRunToken ==
    /\ mounted
    /\ runId < MaxRuns
    /\ LET m == nextRunToken(Cur)
       IN  /\ timers' = m.timers
           /\ runId' = m.runId
           /\ ret' = m.runId
    /\ arg' = [op |-> "nextRunToken"]
    /\ UNCHANGED <<instanceVars, mounted>>

\* setTimeout(() => { if (runIdRef.current === token) fn(); }, delay)
SchedFire(k) ==
    /\ k \in 1..Len(timers)
    /\ MayFire(k)
    /\ timers' = RemoveAt(timers, k)
    /\ arg' = [op |-> "fire", fn |-> timers[k]]
    /\ ret' = (timers[k].token = runId)
    /\ UNCHANGED <<instanceVars, mounted, runId>>

\* useEffect(() => () => cancelAll(), [cancelAll])
SchedUnmount ==
    /\ mounted
    /\ mounted' = FALSE
    /\ LET m == cancelAll(Cur)
       IN  /\ timers' = m.timers
           /\ runId' = m.runId
    /\ arg' = [op |-> "unmount"]
    /\ ret' = NoArg
    /\ UNCHANGED instanceVars

SchedNext ==
    \/ \E delay \in Delays : SchedSchedule(delay)
    \/ SchedCancelAll
    \/ SchedNextRunToken
    \/ \E k \in 1..MaxTimers : SchedFire(k)
    \/ SchedUnmount

SchedSpec == SchedInit /\ [][SchedNext]_vars

(***************************************************************************)
(* planSignature on its own: applied to two plans.  arg is the pair of     *)
(* plans, ret the pair of signatures.                                      *)
(***************************************************************************)
NoScheduler == mounted = FALSE /\ runId = 0 /\ timers = <<>>

\* the text a","b between the quotes of: ["T","a"],["T","b"]
Tricky == <<"a", "\"", "]", ",", "[", "\"", "T", "\"", ",", "\"", "b">>

SigUnits ==
    {TextUnit(c) : c \in {<<"a">>, <<"b">>, Tricky}}
        \cup {InstantUnit(n) : n \in {"x", "y"}}
        \cup {NestedUnit(n) : n \in {"n1", "n2"}}

SigPlans == UNION {[1..n -> SigUnits] : n \in 0..MaxSigLen}

SigInit ==
    /\ NoInstance
    /\ NoScheduler
    /\ arg \in SigPlans \X SigPlans
    /\ ret = NoArg

SigApply ==
    /\ ret = NoArg
    /\ ret' = <<planSignature(arg[1]), planSignature(arg[2])>>
    /\ UNCHANGED <<instanceVars, mounted, runId, timers, arg>>

SigSpec == SigInit /\ [][SigApply]_vars

(***************************************************************************)
(* buildPlan on its own.  A React node is a record with its kind in t:     *)
(* null (or undefined), a boolean, a string, a number, an array of nodes   *)
(* or an element with a type and children.  arg is the node, ret the plan. *)
(***************************************************************************)
Null == [t |-> "null"]

Bool(b) == [t |-> "boolean", bool |-> b]

Str(s) == [t |-> "string", str |-> s]

Num(n) == [t |-> "number", num |-> n]

Arr(items) == [t |-> "array", items |-> items]

El(type, children) == [t |-> "element", type |-> type, children |-> children]

\* element types: what isTreeStreamElement looks at
ElType(name, marker, inner, render, displayName) ==
    [name |-> name, marker |-> marker, inner |-> inner, render |-> render,
     displayName |-> displayName]

FragmentType == ElType("Fragment", FALSE, FALSE, FALSE, "-")

SpanType == ElType("span", FALSE, FALSE, FALSE, "-")

TreeStreamType == ElType("TreeStream", TRUE, FALSE, FALSE, "TreeStream")

MemoType == ElType("memo(TreeStream)", FALSE, TRUE, FALSE, "-")

FwdType == ElType("forwardRef(TreeStream)", FALSE, FALSE, TRUE, "-")

\* the TreeStream of another copy of the package: no marker, same name
NamedType == ElType("TreeStream of another bundle", FALSE, FALSE, FALSE, "TreeStream")

isTreeStreamElement(el) ==
    \/ el.type.marker
    \/ el.type.inner
    \/ el.type.render
    \/ el.type.displayName = "TreeStream"

SetMin(S) == CHOOSE x \in S : \A y \in S : x <= y

SetMax(S) == CHOOSE x \in S : \A y \in S : x >= y

Trim_none(s) == s

\* String.prototype.trim
Trim(s) ==
    LET keep == {j \in 1..Len(s) : ~IsWs(s[j])}
    IN  IF keep = {} THEN <<>> ELSE SubSeq(s, SetMin(keep), SetMax(keep))

DigitChars == <<"0", "1", "2", "3", "4", "5", "6", "7", "8", "9">>

RECURSIVE Digits(_)
Digits(n) ==
    IF n < 10 THEN <<DigitChars[n + 1]>>
    ELSE Digits(n \div 10) \o <<DigitChars[(n % 10) + 1]>>

\* String(node) of an integer
NumberToString(n) == IF n < 0 THEN <<"-">> \o Digits(0 - n) ELSE Digits(n)

RECURSIVE buildPlan(_), FlatMapBuildPlan(_, _)
buildPlan(node) ==
    CASE node.t = "null" \/ node.t = "boolean" -> <<>>
      [] node.t = "string" ->
            IF Trim(node.str) # <<>> THEN <<TextUnit(node.str)>> ELSE <<>>
      [] node.t = "number" -> <<TextUnit(NumberToString(node.num))>>
      [] node.t = "array" -> FlatMapBuildPlan(node.items, Len(node.items))
      [] node.t = "element" ->
            IF node.type = FragmentType THEN buildPlan(node.children)
            ELSE IF isTreeStreamElement(node) THEN <<NestedUnit(node)>>
            ELSE <<InstantUnit(node)>>
      [] OTHER -> <<>>

\* node.flatMap(buildPlan), the first n items
FlatMapBuildPlan(items, n) ==
    IF n = 0 THEN <<>> ELSE FlatMapBuildPlan(items, n - 1) \o buildPlan(items[n])

\* the nodes buildPlan is applied to
Leaves ==
    {Null, Bool(TRUE), Bool(FALSE),
     Str(<<>>), Str(<<" ">>), Str(<<"\n", " ">>), Str(<<"a">>), Str(<<" ", "b", " ">>),
     Num(0), Num(42), Num(-3),
     El(SpanType, Str(<<"x">>)), El(TreeStreamType, Str(<<"c">>)),
     El(MemoType, Str(<<"c">>)), El(FwdType, Str(<<"c">>)), El(NamedType, Null)}

SomeLeaves ==
    {Null, Str(<<" ">>), Str(<<"a">>), El(SpanType, Str(<<"x">>)),
     El(TreeStreamType, Str(<<"c">>))}

ArraysOver(S) == {Arr(items) : items \in UNION {[1..n -> S] : n \in 0..MaxWidth}}

FragmentsOver(S) == {El(FragmentType, c) : c \in S}

Groups == ArraysOver(SomeLeaves) \cup FragmentsOver(SomeLeaves)

Nested2 == {Arr(<<a, b>>) : a \in Groups \cup SomeLeaves, b \in Groups \cup SomeLeaves}

Trees ==
    Leaves \cup ArraysOver(Leaves) \cup FragmentsOver(Leaves)
        \cup Nested2 \cup FragmentsOver(Nested2)

PlanInit ==
    /\ NoInstance
    /\ NoScheduler
    /\ arg \in Trees
    /\ ret = NoArg

PlanApply ==
    /\ ret = NoArg
    /\ ret' = <<buildPlan(arg)>>
    /\ UNCHANGED <<instanceVars, mounted, runId, timers, arg>>

PlanSpec == PlanInit /\ [][PlanApply]_vars

(***************************************************************************)
(* The tokenizer of runUnit on its own: buildPlan is applied to a text     *)
(* child and every text unit of the plan is tokenized in the mode given.   *)
(* arg is the child and the mode, ret the plan and the tokens per unit.    *)
(***************************************************************************)
MaxTextLen == 3     \* characters of a text child handed to the tokenizer

TokChars == {"a", "b", " ", "\n"}

TokTexts == UNION {[1..n -> TokChars] : n \in 0..MaxTextLen}

TokInputs ==
    [node : {Str(s) : s \in TokTexts} \cup {Num(42), Num(-3)},
     streamBy : {"word", "character"}]

TokInit ==
    /\ NoInstance
    /\ NoScheduler
    /\ arg \in TokInputs
    /\ ret = NoArg

TokApply ==
    /\ ret = NoArg
    /\ LET plan == buildPlan(arg.node)
       IN  ret' = [plan |-> plan,
                   tokens |-> [j \in 1..Len(plan) |->
                                  Tokenize(arg.streamBy, plan[j].content)]]
    /\ UNCHANGED <<instanceVars, mounted, runId, timers, arg>>

TokSpec == TokInit /\ [][TokApply]_vars

(***************************************************************************)
(* streamReducer on its own: actions are dispatched in any order, starting *)
(* from the initial state.  state is the reducer state, arg the action     *)
(* dispatched last, ret whether that action met a state that differed from *)
(* the initial one in every field.                                         *)
(***************************************************************************)
MaxAdvance == 2     \* ADVANCE actions dispatched without a RESET between

RedUnits == {0, 1}

RedActions ==
    {[type |-> t] : t \in {"RESET", "START", "END_TEXT", "ADVANCE", "NESTED_DONE", "COMPLETE"}}
        \cup [type : {"BEGIN_TEXT"}, unitIndex : RedUnits,
              tokens : {SplitChars(Hi), SplitWs(Hi)}]
        \cup [type : {"TEXT_TICK"}, nextIndex : 0..2, content : {<<"h">>, Hi}]
        \cup [type : {"INSTANT_RENDER"}, unitIndex : RedUnits, node : {InstantNode("x")}]
        \cup [type : {"NESTED_START"}, unitIndex : RedUnits, node : {NestedNode("n1")}]

RedInit ==
    /\ NoInstance
    /\ mounted = TRUE
    /\ runId = 0
    /\ timers = <<>>
    /\ arg = NoArg
    /\ ret = NoArg

\* no field of st has the value it has in the initial state
AllFieldsSet(st) ==
    /\ st.unitIndex # initialStreamState.unitIndex
    /\ st.waitingNested # initialStreamState.waitingNested
    /\ st.rendered # initialStreamState.rendered
    /\ st.text.tokens # initialStreamState.text.tokens
    /\ st.text.index # initialStreamState.text.index
    /\ st.text.activeUnit # initialStreamState.text.activeUnit
    /\ st.text.streaming # initialStreamState.text.streaming
    /\ st.complete # initialStreamState.complete

\* const [state, dispatch] = useReducer(streamReducer, initialStreamState)
RedDispatch(action) ==
    /\ action.type = "ADVANCE" => state.unitIndex < MaxAdvance
    /\ state' = Dispatch(Cur, action).st
    /\ arg' = action
    /\ ret' = [allSet |-> AllFieldsSet(state)]
    /\ UNCHANGED <<props, closure, child, view, calls, trace, resets, dropped, staleRan,
                   ticks, steady, hooked, thrown, mounted, runId, timers>>

RedNext == \E action \in RedActions : RedDispatch(action)

RedSpec == RedInit /\ [][RedNext]_vars

(***************************************************************************)
(* The instance with a nested child that completes late.  The child calls  *)
(* the hook it holds in its onComplete ref, and the ref is updated by an   *)
(* effect of the child's next render; a completion of the child that falls *)
(* between the parent's reset effect and the render that follows it calls  *)
(* the hook composed in the run before.                                    *)
(***************************************************************************)
\* the effects of one render, as in Settle
EffectRound(m, prevSnap, prevProps, np, env) ==
    LET snap == m.st
        tick == TickDepsChanged(m, snap, prevSnap, np, prevProps)
        reset == ResetDepsChanged(np, prevProps)
        m0 == Commit(m, snap)
        m1 == IF reset /\ Len(prevProps.children) # 0 THEN cancelAll(NoteDropped(m0)) ELSE m0
        m2 == IF tick THEN TextTickEffect(m1, snap, np) ELSE m1
    IN  IF reset THEN ResetEffect(m2, np, env) ELSE m2

\* the host renders the component with the props np, which resets it, and
\* the nested child at slot i completes before the next render
LateHook(np, i, outcome) ==
    /\ mounted
    /\ child[i].status = "running"
    /\ outcome \in HookOutcomes(MapGet(state.rendered, i).node)
    /\ ResetDepsChanged(np, props)
    /\ resets <= MaxResets
    /\ LET env == EnvOf(np, closure)
           m3 == EffectRound(NoteConfig(Cur, props, np), state, props, np, env)
           m4 == composed([m3 EXCEPT !.child[i].status = "complete"], i, outcome)
       IN  \E m \in {Settle(m4, state, np, np, env)} :
               /\ Len(m.timers) <= MaxTimers
               /\ Install(m)
    /\ props' = np
    /\ UNCHANGED <<closure, mounted, arg, ret>>

HookNext ==
    \/ Next
    \/ \E plan \in Plans, i \in UnitSlots, outcome \in {"none", "returns", "raises"} :
           LateHook([props EXCEPT !.children = plan], i, outcome)

HookSpec == Init /\ [][HookNext]_vars

(***************************************************************************)
(* The instance with its scheduling: a pending timeout does fire, and a    *)
(* nested stream that is running finishes (its autoStart is forced on) and *)
(* calls its completion hook.                                              *)
(***************************************************************************)
TimerFires == \E k \in 1..MaxTimers : FireTimer(k)

ChildFinishes ==
    \E i \in UnitSlots, outcome \in {"none", "returns", "raises"} : ChildComplete(i, outcome)

\* some FireTimer(k) is enabled: the oldest pending timer may always fire
TimerPending == timers # <<>>

\* weak fairness of TimerFires, with TimerPending for its enabledness
FairTimers == []<>(~TimerPending) \/ []<><<TimerFires>>_vars

LiveSpec == Init /\ [][Next]_vars /\ FairTimers /\ WF_vars(ChildFinishes)

(***************************************************************************)
(* Properties                                                              *)
(***************************************************************************)
HasEvent(tr, ev, unit) == \E p \in 1..Len(tr) : tr[p] = [ev |-> ev, unit |-> unit]

StartsBefore(tr, p) == Cardinality({q \in 1..(p - 1) : tr[q].ev = "start"})

\* same unit kinds and same text at every position
SameStructure(p, q) ==
    /\ Len(p) = Len(q)
    /\ \A j \in 1..Len(p) :
          /\ p[j].type = q[j].type
          /\ p[j].type = "text_stream" => p[j].content = q[j].content

IsPrefix(s, t) == Len(s) <= Len(t) /\ \A j \in 1..Len(s) : s[j] = t[j]

\* C1: a callback scheduled before a reset never runs its body after the
\* reset, so none of its dispatches reaches the state of the new run.
C1_Cancellation == staleRan = FALSE

\* a reset has just cleared pending callbacks and begun a run with a tick of
\* its own
C1_Witness ==
    /\ dropped
    /\ timers # <<>>
    /\ \A k \in 1..Len(timers) : timers[k].kind = "tick" /\ timers[k].epoch = resets

HookInvoked == \E i \in UnitSlots : child[i].status = "running" /\ child'[i].status = "complete"

NoContinuationPending(ts) == \A k \in 1..Len(ts) : ts[k].kind # "runUnit"

NestedStarted(tr, rendered) ==
    {i \in UnitSlots : HasEvent(tr, "start", i) /\ MapHas(rendered, i)
                          /\ MapGet(rendered, i).kind = "nested"}

C3_Step ==
    (state.waitingNested /\ runId' = runId /\ ~HookInvoked) =>
        /\ state'.unitIndex = state.unitIndex
        /\ state'.waitingNested
        /\ trace' = trace
        /\ ~state'.complete
        /\ NoContinuationPending(timers')

C3_Inv ==
    /\ state.waitingNested => ~state.complete /\ NoContinuationPending(timers)
    /\ state.complete =>
          \A i \in NestedStarted(trace, state.rendered) : HasEvent(trace, "end", i)

C8_Step ==
    (props' # props /\ SameStructure(props'.children, props.children)
        /\ props'.autoStart = props.autoStart) =>
        /\ runId' = runId
        /\ state' = state
        /\ IsPrefix(timers, timers')
        /\ child' = child
        /\ calls' = calls
        /\ trace' = trace
        /\ resets' = resets

C8_NoSpuriousReset == [][C8_Step]_vars

\* the instant unit was rendered, then the host replaced its element by
\* another one: the run went on with the element it had shown
C8_Witness ==
    /\ props.children = PTextInstY
    /\ MapHas(state.rendered, 1)
    /\ MapGet(state.rendered, 1) = InstantNode("x")
    /\ state.text.index > 0

\* C9: with an empty plan the reset itself dispatches COMPLETE and invokes
\* onComplete, whatever autoStart is; nothing is scheduled, rendered is empty.
C9_EmptyPlan ==
    props.children = <<>> =>
        /\ state.complete
        /\ calls = 1
        /\ state.rendered = <<>>
        /\ timers = <<>>
        /\ trace = <<>>

\* a mounted instance with autoStart off was reset to the empty plan
C9_Witness ==
    /\ props.children = <<>>
    /\ ~props.autoStart
    /\ resets > 1
    /\ state.complete
    /\ calls = 1

\* C5: in a complete state rendered has an entry for every unit of the
\* current plan.
C5_CompletionInvariant ==
    state.complete => \A i \in 0..(Len(props.children) - 1) : MapHas(state.rendered, i)

Quiescent == timers = <<>> /\ \A i \in UnitSlots : child[i].status # "running"

\* C6: a run with autoStart and a non-empty plan completes and invokes
\* onComplete once timers have fired and nested children have signalled:
\* when nothing is left to fire and the run does not wait for a child, it
\* is complete.
C6_EventualCompletion ==
    (Quiescent /\ props.autoStart /\ props.children # <<>> /\ ~state.waitingNested) =>
        state.complete /\ calls = 1

\* the state right after unit 0 of plan was begun on the initial state
FirstUnitStarted(plan, st, tr) ==
    /\ tr # <<>>
    /\ tr[1] = [ev |-> "start", unit |-> 0]
    /\ MapKeys(st.rendered) = {0}
    /\ ~st.complete
    /\ CASE plan[1].type = "text_stream" ->
              /\ MapGet(st.rendered, 0) = TextContent(<<>>)
              /\ st.text.streaming /\ st.text.index = 0 /\ st.text.activeUnit = 0
              /\ JoinPrefix(st.text.tokens, Len(st.text.tokens)) = plan[1].content
              /\ st.unitIndex = 0
         [] plan[1].type = "instant_render" ->
              /\ MapGet(st.rendered, 0) = InstantNode(plan[1].node)
              /\ st.unitIndex = 1
         [] plan[1].type = "nested_stream" ->
              /\ MapGet(st.rendered, 0) = NestedNode(plan[1].node)
              /\ st.waitingNested /\ st.unitIndex = 0

C7_Step ==
    (props' # props /\ (~SameStructure(props'.children, props.children)
                          \/ props'.autoStart # props.autoStart)) =>
        /\ runId' = runId + 1
        /\ IF props'.children = <<>>
           THEN state' = [initialStreamState EXCEPT !.complete = TRUE]
           ELSE IF props'.autoStart
                THEN FirstUnitStarted(props'.children, state', trace')
                ELSE state' = initialStreamState

\* C7: a change of the plan signature or of autoStart increments the token,
\* replaces the state by the initial one and, with a non-empty plan and
\* autoStart, starts unit 0 of the new plan.
C7_ResetPolicy == [][C7_Step]_vars

C10_Idle ==
    (~props.autoStart /\ props.children # <<>>) =>
        state = initialStreamState /\ timers = <<>> /\ trace = <<>> /\ calls = 0

C10_Start ==
    (~props.autoStart /\ props'.autoStart /\ props'.children # <<>>) =>
        FirstUnitStarted(props'.children, state', trace')

\* C10: with a non-empty plan and autoStart off the instance stays idle
\* (nothing started, scheduled or rendered, not streaming, not complete);
\* when autoStart turns on, the stream starts at unit 0.
C10_AutoStartOff == []C10_Idle /\ [][C10_Start]_vars

\* the active text unit shows the tokens [0, text.index) joined
ShowsPrefix(st) ==
    /\ MapHas(st.rendered, st.text.activeUnit)
    /\ MapGet(st.rendered, st.text.activeUnit)
          = TextContent(JoinPrefix(st.text.tokens, st.text.index))

C11_Inv ==
    (steady /\ state.text.streaming) =>
        /\ state.text.index = ticks * Max(1, props.speed)
        /\ state.text.index < Len(state.text.tokens)
        /\ ShowsPrefix(state)
        /\ ~HasEvent(trace, "end", state.text.activeUnit)

C11_Step ==
    (steady /\ steady' /\ ticks' = ticks + 1) =>
        /\ state'.text.index
              = Min(ticks' * Max(1, props.speed), Len(state.text.tokens))
        /\ state'.text.tokens = state.text.tokens
        /\ ShowsPrefix(state')
        /\ HasEvent(trace', "end", state.text.activeUnit)
              <=> state'.text.index = Len(state.text.tokens)

ShownTextUnits ==
    {i \in MapKeys(state.rendered) :
        /\ i < Len(props.children)
        /\ props.children[i + 1].type = "text_stream"
        /\ MapGet(state.rendered, i).kind = "text"}

OwnTokens(i) == Tokenize(closure.streamBy, props.children[i + 1].content)

C12_Prefix ==
    \A i \in ShownTextUnits :
        \E j \in 0..Len(OwnTokens(i)) :
            MapGet(state.rendered, i).text = JoinPrefix(OwnTokens(i), j)

C12_Final ==
    \A i \in ShownTextUnits :
        HasEvent(trace, "end", i) =>
            MapGet(state.rendered, i).text = props.children[i + 1].content

C12_Monotonic ==
    (runId' = runId /\ state.text.activeUnit # NoUnit
        /\ state'.text.activeUnit = state.text.activeUnit) =>
        state'.text.index >= state.text.index

\* C12: whatever the order and delay of the ticks and whatever changes of
\* speed and interval, a text unit shows a prefix of its own tokens,
\* text.index never decreases within the unit, and a unit whose END_TEXT was
\* dispatched shows its full content until the next reset.
C12_TickSafety == [](C12_Prefix /\ C12_Final) /\ [][C12_Monotonic]_vars

\* C13: the element a committed render exposes carries data-streaming =
\* text.streaming OR waitingNested and data-complete = complete of the
\* state it was rendered from.
C13_ObservableFlags ==
    /\ view.streaming = (state.text.streaming \/ state.waitingNested)
    /\ view.complete = state.complete

\* no text is streaming, the instance waits on a nested stream and shows
\* itself as streaming
C13_Witness ==
    /\ state.waitingNested
    /\ ~state.text.streaming
    /\ view.streaming
    /\ ~view.complete

ContinuationTo(fn, next) ==
    fn.kind = "runUnit" /\ fn.next = next /\ fn.delay = 0 /\ fn.token = runId

C14_EndText ==
    (state.text.streaming /\ ~state'.text.streaming /\ resets' = resets) =>
        /\ ~state'.complete
        /\ \E k \in 1..Len(timers') :
              ContinuationTo(timers'[k], state.text.activeUnit + 1)

C14_Complete ==
    (~state.complete /\ state'.complete /\ resets' = resets) =>
        /\ state'.text.streaming = state.text.streaming
        /\ \E k \in 1..Len(timers) :
              /\ ContinuationTo(timers[k], state.unitIndex)
              /\ timers' = RemoveAt(timers, k)

C15_Step ==
    \A i \in UnitSlots :
        (child[i].status = "running" /\ child'[i].status = "complete") =>
            /\ ~state'.waitingNested
            /\ state'.unitIndex = state.unitIndex + 1
            /\ \E k \in 1..Len(timers') :
                  /\ timers'[k].kind = "runUnit" /\ timers'[k].next = i + 1
                  /\ timers'[k].delay = 0 /\ timers'[k].token = runId'
            /\ trace' = trace \o (IF HasHook(MapGet(state.rendered, i).node)
                                   THEN <<[ev |-> "hook", unit |-> i]>> ELSE <<>>)
                               \o <<[ev |-> "end", unit |-> i]>>
            /\ thrown' = (hooked' = "raises")

\* C15: when a nested child completes, the hook its element carried is
\* called first; whether there is none, it returns or it raises, the parent
\* dispatches NESTED_DONE and ADVANCE and schedules the continuation to unit
\* i+1, and an error is raised to the caller exactly when the hook raised.
C15_HookComposition == [][C15_Step]_vars

\* the hook of the nested unit raised: the error went to the caller and the
\* parent left the unit with the continuation to the next one pending
C15_Witness ==
    /\ hooked = "raises"
    /\ thrown
    /\ ~state.waitingNested
    /\ state.unitIndex = 2
    /\ HasEvent(trace, "hook", 1)
    /\ \E k \in 1..Len(timers) : ContinuationTo(timers[k], 2)

NestedEntries(rendered) ==
    {i \in MapKeys(rendered) : MapGet(rendered, i).kind = "nested"}

\* C16: every nested element stored by NESTED_START has autoStart = true,
\* and while the parent is mounted the nested instance mounted from it has
\* started (it runs or is done), whatever autoStart its element was
\* configured with.
C16_ForcedAutoStart ==
    \A i \in NestedEntries(state.rendered) :
        /\ MapGet(state.rendered, i).autoStart
        /\ mounted => child[i].status \in {"running", "complete"}

\* the parent waits on a nested stream that was configured with autoStart
\* off, and that stream is running
C16_Witness ==
    /\ state.waitingNested
    /\ \E i \in NestedEntries(state.rendered) :
          /\ ~ConfiguredAutoStart(MapGet(state.rendered, i).node)
          /\ child[i].status = "running"

C18_Quiet ==
    ~mounted => (state' = state /\ calls' = calls /\ trace' = trace /\ timers' = timers)

\* C18: once the instance is unmounted no callback of it is pending, and
\* from then on nothing is dispatched or scheduled and onComplete is not
\* invoked.
C18_Teardown == [](~mounted => timers = <<>>) /\ [][C18_Quiet]_vars

\* an instance was unmounted in the middle of a run, while callbacks were
\* pending
C18_Witness ==
    /\ ~mounted
    /\ dropped
    /\ state.text.streaming
    /\ ~state.complete
    /\ calls = 0

C17_Step ==
    /\ runId' # runId => (arg'.op = "nextRunToken" /\ runId' = runId + 1)
    /\ arg'.op = "nextRunToken" => (runId' = runId + 1 /\ ret' = runId' /\ timers' = <<>>)
    /\ arg'.op = "cancelAll" => (runId' = runId /\ timers' = <<>>)
    /\ arg'.op = "schedule" =>
          /\ runId' = runId
          /\ Len(timers') = Len(timers) + 1
          /\ IsPrefix(timers, timers')
          /\ ret'.token = runId
          /\ ret'.delay = Max(0, arg'.delay)
    /\ arg'.op = "fire" => (runId' = runId /\ ret' = TRUE)

\* C17: the run token changes only in nextRunToken, by exactly 1; schedule
\* and cancelAll leave it as it is, schedule stamps the callback with it,
\* and every timeout that fires, also one scheduled after a cancelAll under
\* the same token, runs its callback.
C17_TokenDiscipline == [][C17_Step]_vars

\* a callback scheduled right after cancelAll, under a token taken before,
\* has fired and run
C17_Witness ==
    /\ arg.op = "fire"
    /\ arg.fn.afterCancel
    /\ arg.fn.token = runId
    /\ runId > 0
    /\ ret = TRUE

\* C19: two plans have the same signature exactly when they have the same
\* unit kinds in the same order and equal text at every text unit; the
\* elements of instant and nested units play no part.
C19_SignatureEquality ==
    ret # NoArg => ((ret[1] = ret[2]) <=> SameStructure(arg[1], arg[2]))

\* two plans that differ only in the elements of their instant and nested
\* units got the same signature
C19_Witness ==
    /\ ret # NoArg
    /\ arg[1] # arg[2]
    /\ Len(arg[1]) = 2
    /\ arg[1][1].type = "instant_render"
    /\ arg[1][2].type = "nested_stream"
    /\ ret[1] = ret[2]

\* the leaves of a tree in pre-order, arrays and fragments opened
RECURSIVE LeavesOf(_), LeavesOfItems(_, _)
LeavesOf(node) ==
    IF node.t = "array" THEN LeavesOfItems(node.items, 1)
    ELSE IF node.t = "element" /\ node.type.name = "Fragment" THEN LeavesOf(node.children)
    ELSE <<node>>

LeavesOfItems(items, j) ==
    IF j > Len(items) THEN <<>> ELSE LeavesOf(items[j]) \o LeavesOfItems(items, j + 1)

DecimalOf(n) ==
    CASE n = 0 -> <<"0">>
      [] n = 42 -> <<"4", "2">>
      [] n = -3 -> <<"-", "3">>

StreamTypeNames ==
    {"TreeStream", "memo(TreeStream)", "forwardRef(TreeStream)",
     "TreeStream of another bundle"}

\* the units one leaf contributes
UnitsOfLeaf(leaf) ==
    CASE leaf.t \in {"null", "boolean"} -> <<>>
      [] leaf.t = "string" ->
            IF \E j \in 1..Len(leaf.str) : leaf.str[j] \notin {" ", "\t", "\n"}
            THEN <<[type |-> "text_stream", content |-> leaf.str, node |-> NoNode]>>
            ELSE <<>>
      [] leaf.t = "number" ->
            <<[type |-> "text_stream", content |-> DecimalOf(leaf.num), node |-> NoNode]>>
      [] leaf.t = "element" ->
            IF leaf.type.name \in StreamTypeNames
            THEN <<[type |-> "nested_stream", content |-> <<>>, node |-> leaf]>>
            ELSE <<[type |-> "instant_render", content |-> <<>>, node |-> leaf]>>

RECURSIVE UnitsOfLeaves(_, _)
UnitsOfLeaves(leaves, j) ==
    IF j > Len(leaves) THEN <<>>
    ELSE UnitsOfLeaf(leaves[j]) \o UnitsOfLeaves(leaves, j + 1)

\* C20: buildPlan(tree) is the sequence of the units that the leaves of the
\* tree contribute, taken in pre-order with arrays and fragments opened at
\* any depth: nothing for null, booleans and whitespace-only strings, a text
\* unit with the unchanged string or the decimal string of a number, a
\* nested unit for a stream element (not opened), an instant unit for any
\* other element.
C20_PlanConstruction ==
    ret # NoArg => ret[1] = UnitsOfLeaves(LeavesOf(arg), 1)

\* a fragment around an array of arrays gave a plan of three units of
\* different kinds
C20_Witness ==
    /\ ret # NoArg
    /\ arg.t = "element"
    /\ arg.children.t = "array"
    /\ arg.children.items[1].t = "array"
    /\ Len(ret[1]) = 3
    /\ ret[1][1].type = "text_stream"
    /\ ret[1][2].type = "instant_render"
    /\ ret[1][3].type = "nested_stream"

AllWs(t) == \A j \in 1..Len(t) : IsWs(t[j])

NoWs(t) == \A j \in 1..Len(t) : ~IsWs(t[j])

\* word mode: words at the odd positions, whitespace runs between them
WordShaped(tokens) ==
    /\ Len(tokens) % 2 = 1
    /\ \A j \in 1..Len(tokens) :
          IF j % 2 = 1 THEN NoWs(tokens[j])
          ELSE tokens[j] # <<>> /\ AllWs(tokens[j])

\* C21: for every text unit buildPlan produces, the tokens handed to
\* BEGIN_TEXT are at least one and their concatenation is the content of the
\* unit; in character mode every token is one character, in word mode the
\* tokens are words and whitespace runs in turn.
C21_TokenRoundTrip ==
    ret # NoArg =>
        \A j \in 1..Len(ret.plan) :
            ret.plan[j].type = "text_stream" =>
                /\ Len(ret.tokens[j]) > 0
                /\ JoinPrefix(ret.tokens[j], Len(ret.tokens[j])) = ret.plan[j].content
                /\ IF arg.streamBy = "character"
                   THEN \A k \in 1..Len(ret.tokens[j]) : Len(ret.tokens[j][k]) = 1
                   ELSE WordShaped(ret.tokens[j])

\* a text that begins with whitespace, in word mode: the first token is the
\* empty word and the tokens still join to the text
C21_Witness ==
    /\ ret # NoArg
    /\ arg.streamBy = "word"
    /\ arg.node = Str(<<" ", "a", "\n">>)
    /\ ret.tokens = <<<< <<>>, <<" ">>, <<"a">>, <<"\n">>, <<>> >>>>

\* a text unit begins in this step
TextBegins ==
    /\ state'.text.streaming
    /\ \/ ~state.text.streaming
       \/ state'.text.activeUnit # state.text.activeUnit
       \/ resets' # resets

C22_Step ==
    TextBegins =>
        /\ state'.text.activeUnit < Len(props'.children)
        /\ props'.children[state'.text.activeUnit + 1].type = "text_stream"
        /\ state'.text.tokens
              = Tokenize(props'.streamBy,
                         props'.children[state'.text.activeUnit + 1].content)

\* C22: a text unit is tokenized in the streamBy mode the instance is
\* configured with when the unit begins, also when streamBy was changed
\* after the mount.
C22_ConfiguredGranularity == [][C22_Step]_vars

C23_Step ==
    arg'.type = "RESET" =>
        /\ state'.unitIndex = 0
        /\ state'.waitingNested = FALSE
        /\ state'.rendered = <<>>
        /\ state'.text = [tokens |-> <<>>, index |-> 0, activeUnit |-> NoUnit,
                          streaming |-> FALSE]
        /\ state'.complete = FALSE
        /\ DOMAIN state' = {"unitIndex", "waitingNested", "rendered", "text", "complete"}

\* C23: RESET yields exactly the initial state, whatever the state before:
\* cursor 0, not waiting, rendered empty, no tokens, index 0, no active unit,
\* not streaming, not complete.
C23_ResetWholesale == [][C23_Step]_vars

\* a RESET met a state in which every field had left its initial value
C23_Witness ==
    /\ arg # NoArg
    /\ arg.type = "RESET"
    /\ ret.allSet
    /\ state = initialStreamState

\* the entries of rendered under the keys other than those in K are the same
OthersKept(r, rn, K) ==
    /\ MapKeys(rn) \ K = MapKeys(r) \ K
    /\ \A k \in MapKeys(r) \ K : MapGet(rn, k) = MapGet(r, k)

SameBut(st, stn, fields) ==
    /\ "unitIndex" \in fields \/ stn.unitIndex = st.unitIndex
    /\ "waitingNested" \in fields \/ stn.waitingNested = st.waitingNested
    /\ "rendered" \in fields \/ stn.rendered = st.rendered
    /\ "text" \in fields \/ stn.text = st.text
    /\ "complete" \in fields \/ stn.complete = st.complete

C24_Step ==
    LET a == arg'
        r == state.rendered
        rn == state'.rendered
    IN  CASE a.type = "ADVANCE" ->
               /\ SameBut(state, state', {"unitIndex"})
               /\ state'.unitIndex = state.unitIndex + 1
          [] a.type = "END_TEXT" ->
               /\ SameBut(state, state', {"text"})
               /\ state'.text = [state.text EXCEPT !.streaming = FALSE]
          [] a.type = "NESTED_DONE" ->
               /\ SameBut(state, state', {"waitingNested"})
               /\ ~state'.waitingNested
          [] a.type = "COMPLETE" ->
               /\ SameBut(state, state', {"complete"})
               /\ state'.complete
          [] a.type = "INSTANT_RENDER" ->
               /\ SameBut(state, state', {"rendered"})
               /\ OthersKept(r, rn, {a.unitIndex})
               /\ MapHas(rn, a.unitIndex) /\ MapGet(rn, a.unitIndex) = a.node
          [] a.type = "NESTED_START" ->
               /\ SameBut(state, state', {"rendered", "waitingNested"})
               /\ state'.waitingNested
               /\ OthersKept(r, rn, {a.unitIndex})
               /\ MapHas(rn, a.unitIndex) /\ MapGet(rn, a.unitIndex) = a.node
          [] a.type = "TEXT_TICK" ->
               /\ SameBut(state, state', {"rendered", "text"})
               /\ state'.text = [state.text EXCEPT !.index = a.nextIndex]
               /\ IF state.text.activeUnit = NoUnit THEN rn = r
                  ELSE /\ OthersKept(r, rn, {state.text.activeUnit})
                       /\ MapHas(rn, state.text.activeUnit)
                       /\ MapGet(rn, state.text.activeUnit) = TextContent(a.content)
          [] a.type = "BEGIN_TEXT" ->
               /\ SameBut(state, state', {"rendered", "text"})
               /\ state'.text = [tokens |-> a.tokens, index |-> 0,
                                 activeUnit |-> a.unitIndex, streaming |-> TRUE]
               /\ IF MapHas(r, a.unitIndex) THEN rn = r
                  ELSE /\ OthersKept(r, rn, {a.unitIndex})
                       /\ MapHas(rn, a.unitIndex)
                       /\ MapGet(rn, a.unitIndex) = TextContent(<<>>)
          [] OTHER -> TRUE

\* C24: every action of the reducer changes only the fields its row of the
\* transition table names: ADVANCE the cursor (+1), END_TEXT text.streaming,
\* NESTED_DONE waitingNested, COMPLETE complete, INSTANT_RENDER rendered[i],
\* NESTED_START rendered[i] and waitingNested, TEXT_TICK rendered[activeUnit]
\* and text.index, BEGIN_TEXT the text substate and, when absent,
\* rendered[i]; the rendered entries of the other indexes stay as they are.
C24_FrameConditions == [][C24_Step]_vars

\* a tick wrote the text of unit 1 while rendered also held a nested element
\* for unit 0 and every other field had left its initial value
C24_Witness ==
    /\ arg # NoArg
    /\ arg.type = "TEXT_TICK"
    /\ ret.allSet
    /\ state.text.activeUnit = 1
    /\ MapKeys(state.rendered) = {0, 1}
    /\ MapGet(state.rendered, 1) = TextContent(arg.content)
    /\ MapGet(state.rendered, 0) = NestedNode("n1")

EndsIn(tr) == {p \in 1..Len(tr) : tr[p].ev = "end"}

\* the unit at index i of plan is an instant unit
IsInstantAt(plan, i) == i < Len(plan) /\ plan[i + 1].type = "instant_render"

C26_Step ==
    resets' > resets =>
        /\ \A p \in EndsIn(trace') : IsInstantAt(props'.children, trace'[p].unit)
        /\ state'.unitIndex = Cardinality(EndsIn(trace'))
        /\ (HasEvent(trace', "start", 0) /\ props'.children[1].type = "nested_stream")
              => state'.waitingNested
        /\ \A k \in 1..Len(timers') :
              (timers'[k].kind = "runUnit" /\ timers'[k].token = runId') =>
                  /\ HasEvent(trace', "end", timers'[k].next - 1)
                  /\ IsInstantAt(props'.children, timers'[k].next - 1)

\* C26: the hook composed for a nested unit in one run leaves the run begun
\* by a later reset alone: the step of the reset ends no nested unit of the
\* new run, advances its cursor only past an instant unit 0 and schedules no
\* other continuation under the new token.
C26_NoUseAfterReset == [][C26_Step]_vars

PendingUnderToken == {k \in 1..Len(timers) : timers[k].token = runId}

\* C27: at most one callback scheduled under the current token is pending,
\* the next tick or the next continuation, also when speed or interval
\* change while a text unit is streaming.
C27_SingleChain == Cardinality(PendingUnderToken) <= 1

C28_Flags ==
    /\ ~(state.text.streaming /\ state.waitingNested)
    /\ state.complete => (~state.text.streaming /\ ~state.waitingNested)

C28_Stays == (state.complete /\ resets' = resets) => state'.complete

C29_Inv ==
    state.text.streaming =>
        /\ state.text.activeUnit = state.unitIndex
        /\ HasEvent(trace, "start", state.unitIndex)
        /\ ~HasEvent(trace, "end", state.unitIndex)

C29_Step ==
    (state.text.streaming /\ ~state'.text.streaming /\ resets' = resets) =>
        /\ state'.unitIndex = state.text.activeUnit + 1
        /\ trace' = Append(trace, [ev |-> "end", unit |-> state.text.activeUnit])
        /\ \E k \in 1..Len(timers') :
              /\ timers'[k].kind = "runUnit"
              /\ timers'[k].next = state'.unitIndex
              /\ timers'[k].token = runId'

C30_NestedSignalled ==
    (mounted /\ state.waitingNested) ~> (~mounted \/ ~state.waitingNested)

C31_Inv ==
    /\ state.unitIndex = Cardinality(EndsIn(trace))
    /\ \A i \in 0..(state.unitIndex - 1) : HasEvent(trace, "end", i)
    /\ state.unitIndex <= Len(props.children)
    /\ \E k \in {state.unitIndex, state.unitIndex + 1} :
          MapKeys(state.rendered) = 0..(k - 1)

C31_Step == resets' = resets => state'.unitIndex >= state.unitIndex

====
